---------------------------- MODULE Spec2Model ----------------------------
(***************************************************************************)
(* Model of the reports-analyzer Streamlit application: the analyzer page  *)
(* (Home.py) and the access-export page (access_export.py), both held in   *)
(* src/pages/access_export.py.                                             *)
(*                                                                         *)
(* Text is modelled as a sequence of one-character strings, so that the    *)
(* prefix test str.startswith('GR'), the comparison with '*PUBLIC', the    *)
(* header clean-up and re.split(r'[,\s]+', ...) are computed on the        *)
(* characters.  A python dict is a function on its key set, a python set   *)
(* is a set, a DataFrame is a record of its column names and its rows.     *)
(* Identifiers of the model contain a non-digit character: pandas would    *)
(* type an all-numeric column as a number.                                 *)
(***************************************************************************)
EXTENDS Integers, Sequences, FiniteSets, TLC

VARIABLES
    page,               \* which script runs: "Home" or "Export"
    pc,                 \* position of the run inside main()
    ug_file,            \* the uploaded user_groups file
    acc_file,           \* the uploaded master_users_groups file
    user_groups_df,     \* load_csv(user_groups_file)
    master_df,          \* load_csv(master_users_groups_file)
    user_groups,        \* dict user -> set of groups
    group_accesses,     \* dict group -> set of accesses
    user_accesses,      \* dict subject -> set of accesses
    public_accesses,    \* set of accesses
    extra_accesses,     \* dict user -> set of accesses
    stats,              \* the dict of generate_summary_stats
    bound,              \* names of the locals of main() assigned so far
    extra_access_data,  \* the list of rows of the extra-access table
    extra_df,           \* that table, sorted by its count column
    selected_accesses,  \* the accesses chosen in the multiselect
    filtered_data,      \* the rows of the filtered access report
    export_csv,         \* the CSV text handed to st.download_button
    shown,              \* what the run has put on the page
    errors,             \* st.error messages of the run, in order
    exc                 \* the exception that ended the run, or NoExc

\* what is uploaded and which page is open
files == <<page, ug_file, acc_file>>

\* what a run builds for the page after the mappings
report == <<stats, bound, extra_access_data, extra_df, selected_accesses,
            filtered_data, export_csv, shown, errors>>

vars == <<page, pc, ug_file, acc_file, user_groups_df, master_df, user_groups,
          group_accesses, user_accesses, public_accesses, extra_accesses,
          stats, bound, extra_access_data, extra_df, selected_accesses,
          filtered_data, export_csv, shown, errors, exc>>

-----------------------------------------------------------------------------
(* Text *)

\* numpy.nan, the object pandas puts into a text column for an empty field.
\* It is a one-element sequence whose element is no character, so it equals
\* no text.
NaN == <<"float:nan">>

\* pd.isna
isna(v) == v # <<>> /\ v[1] = "float:nan"

\* python None
None == <<"NoneType:None">>

notna(v) == ~isna(v)

GR == <<"G", "R">>
PUBLIC == <<"*", "P", "U", "B", "L", "I", "C">>
USER_NAME == <<"U", "S", "E", "R", "_", "N", "A", "M", "E">>
MAIN_GROUP == <<"M", "A", "I", "N", "_", "G", "R", "O", "U", "P">>
ADDL_GROUP == <<"A", "D", "D", "L", "_", "G", "R", "O", "U", "P">>
JNUSER == <<"J", "N", "U", "S", "E", "R">>
VHFROM == <<"V", "H", "F", "R", "O", "M">>

\* str.startswith(prefix)
startswith(s, prefix) ==
    /\ Len(s) >= Len(prefix)
    /\ SubSeq(s, 1, Len(prefix)) = prefix

\* the vertical tab, for which TLA+ has no escape
VT == "\\x0b"

\* the characters python's \s and str.strip() treat as whitespace
Whitespace == {" ", "\t", "\n", "\r", "\f", VT}

\* the separator class [,\s] of the additional-groups pattern
IsSeparator(c) == c = "," \/ c \in Whitespace

RECURSIVE re_split_from(_, _, _, _)
re_split_from(s, i, cur, out) ==
    IF i > Len(s) THEN Append(out, cur)
    ELSE IF IsSeparator(s[i])
         THEN IF i > 1 /\ IsSeparator(s[i - 1])
              THEN re_split_from(s, i + 1, cur, out)
              ELSE re_split_from(s, i + 1, <<>>, Append(out, cur))
         ELSE re_split_from(s, i + 1, Append(cur, s[i]), out)

\* re.split(r'[,\s]+', s): the pieces between maximal runs of separators,
\* empty pieces at the ends included
re_split(s) == re_split_from(s, 1, <<>>, <<>>)

\* set(seq)
ToSet(seq) == {seq[i] : i \in 1..Len(seq)}

RECURSIVE lstrip(_)
lstrip(s) ==
    IF s # <<>> /\ Head(s) \in Whitespace THEN lstrip(Tail(s)) ELSE s

RECURSIVE rstrip(_)
rstrip(s) ==
    IF s # <<>> /\ s[Len(s)] \in Whitespace
    THEN rstrip(SubSeq(s, 1, Len(s) - 1))
    ELSE s

\* str.strip()
strip(s) == rstrip(lstrip(s))

\* str.replace('"', '')
remove_quotes(s) == SelectSeq(s, LAMBDA c : c # "\"")

Digits == <<"0", "1", "2", "3", "4", "5", "6", "7", "8", "9">>

is_digit(c) == \E k \in 1..Len(Digits) : Digits[k] = c

\* whether pandas.read_csv reads the field as an integer (the signed and the
\* fractional forms are left out: no field of the model has them)
is_integer_text(f) == f # <<>> /\ \A i \in 1..Len(f) : is_digit(f[i])

\* the decimal digits without leading zeros
RECURSIVE drop_zeros(_)
drop_zeros(f) ==
    IF Len(f) > 1 /\ Head(f) = "0" THEN drop_zeros(Tail(f)) ELSE f

\* an integer value of a parsed column.  Like NaN it is a sequence whose
\* first element is no character, so it equals no text: the int 7 is not
\* the str '7'
Int64 == "int64:"
parse_int(f) == <<Int64>> \o drop_zeros(f)

\* str(n) for a natural number
RECURSIVE str_of_int(_)
str_of_int(n) ==
    IF n < 10 THEN <<Digits[n + 1]>>
    ELSE str_of_int(n \div 10) \o <<Digits[(n % 10) + 1]>>

\* the parsed value of the field that holds the number n
py_int(n) == <<Int64>> \o str_of_int(n)

\* the missing value of row i of a float64 column.  Reading it out of the
\* frame makes a float object of its own, which as a dict key equals neither
\* numpy.nan nor the missing value of another row or column.
float_nan(column, i) == <<"float:nan">> \o column \o <<"#">> \o str_of_int(i)

\* whether a parsed value is text
is_str(v) == notna(v) /\ (v = <<>> \/ v[1] # Int64)

-----------------------------------------------------------------------------
(* dicts and DataFrames *)

EmptyDict == [k \in {} |-> {}]

\* DictSet adding v to the set already held under k instead of replacing it
DictSet_merge(d, k, v) ==
    [x \in DOMAIN d \cup {k} |-> IF x # k THEN d[x]
                                ELSE IF k \in DOMAIN d THEN d[k] \cup v ELSE v]

\* d[k] = v
DictSet(d, k, v) == [x \in DOMAIN d \cup {k} |-> IF x = k THEN v ELSE d[x]]

\* DictGet giving, for a key the dict lacks, every value of the dict together
DictGet_any(d, k) == IF k \in DOMAIN d THEN d[k] ELSE UNION {d[x] : x \in DOMAIN d}

\* d.get(k, set())
DictGet(d, k) == IF k \in DOMAIN d THEN d[k] ELSE {}

RECURSIVE SetToSeq(_)
SetToSeq(S) ==
    IF S = {} THEN <<>>
    ELSE LET x == CHOOSE y \in S : TRUE IN <<x>> \o SetToSeq(S \ {x})

\* an order in which a loop visits the keys of d
KeyOrder(d) == SetToSeq(DOMAIN d)

\* the value load_csv returns for a file it could not read
NoDataFrame == [loaded |-> FALSE, columns |-> <<>>, rows |-> <<>>]

\* col in df.columns
has_column(df, col) == \E i \in 1..Len(df.columns) : df.columns[i] = col

column_index(df, col) ==
    CHOOSE i \in 1..Len(df.columns) :
        /\ df.columns[i] = col
        /\ \A j \in 1..(i - 1) : df.columns[j] # col

\* row[col], for a column the table has
cell(df, i, col) == df.rows[i][column_index(df, col)]

\* whether the column holds text (dtype object), so that .str applies: a
\* column whose fields are all missing or all numbers is read as a number
is_text_column(df, col) ==
    Len(df.rows) = 0 \/ \E i \in 1..Len(df.rows) : is_str(cell(df, i, col))

\* the field values pandas.read_csv reads as a missing value (its default
\* na_values), among them the empty field
NaStrings ==
    { <<>>, <<"N", "A">>, <<"N", "a", "N">>, <<"n", "a", "n">>,
      <<"N", "/", "A">>, <<"n", "/", "a">>, <<"#", "N", "/", "A">>,
      <<"#", "N", "A">>, <<"N", "U", "L", "L">>, <<"n", "u", "l", "l">>,
      <<"<", "N", "A", ">">>, <<"-", "N", "a", "N">>, <<"-", "n", "a", "n">>,
      <<"N", "o", "n", "e">> }

\* the value pandas.read_csv gives a field of a text column
parse_field(f) == IF f \in NaStrings THEN NaN ELSE f

\* df.columns.str.strip().str.replace('"', '')
clean_column(name) == remove_quotes(strip(name))

\* whether read_csv types column j as a number (int64, or float64 when a
\* field is missing): every field is missing or an integer
is_numeric_column(file, j) ==
    \A i \in 1..Len(file.rows) :
        file.rows[i][j] \in NaStrings \/ is_integer_text(file.rows[i][j])

\* the value a row of the frame gives for field j of row i of the file
parse_cell(file, i, j) ==
    IF ~is_numeric_column(file, j) THEN parse_field(file.rows[i][j])
    ELSE IF file.rows[i][j] \in NaStrings
    THEN float_nan(clean_column(file.header[j]), i)
    ELSE parse_int(file.rows[i][j])

\* load_csv returning a table without columns where it should return None
load_csv_always_table(file) ==
    IF ~file.uploaded \/ ~file.readable
    THEN [loaded |-> TRUE, columns |-> <<>>, rows |-> <<>>]
    ELSE [ loaded  |-> TRUE,
           columns |-> [j \in 1..Len(file.header) |-> clean_column(file.header[j])],
           rows    |-> [i \in 1..Len(file.rows) |->
                          [j \in 1..Len(file.rows[i]) |-> parse_cell(file, i, j)]] ]

\* load_csv: None for a file whose content does not decode or parse
load_csv(file) ==
    IF ~file.uploaded \/ ~file.readable THEN NoDataFrame
    ELSE [ loaded  |-> TRUE,
           columns |-> [j \in 1..Len(file.header) |-> clean_column(file.header[j])],
           rows    |-> [i \in 1..Len(file.rows) |->
                          [j \in 1..Len(file.rows[i]) |-> parse_cell(file, i, j)]] ]

-----------------------------------------------------------------------------
(* Membership resolver *)

required_columns == <<USER_NAME, MAIN_GROUP, ADDL_GROUP>>

\* the required columns df lacks, in the order the check visits them
missing_columns(df) == SelectSeq(required_columns, LAMBDA c : ~has_column(df, c))

\* additional_groups with the empty pieces of the split kept
additional_groups_keep_empty(v) == re_split(v)

\* the non-empty tokens of the additional-groups value
additional_groups(v) == SelectSeq(re_split(v), LAMBDA g : g # <<>>)

\* the list `groups` of one row, analyzer page
row_groups(df, i) ==
    (IF notna(cell(df, i, MAIN_GROUP)) THEN <<cell(df, i, MAIN_GROUP)>> ELSE <<>>)
    \o (IF notna(cell(df, i, ADDL_GROUP))
        THEN additional_groups(cell(df, i, ADDL_GROUP))
        ELSE <<>>)

RECURSIVE user_groups_loop(_, _, _)
user_groups_loop(df, i, d) ==
    IF i > Len(df.rows) THEN d
    ELSE user_groups_loop(df, i + 1,
             DictSet(d, cell(df, i, USER_NAME), ToSet(row_groups(df, i))))

\* get_user_groups of the analyzer page
get_user_groups(df) ==
    IF missing_columns(df) # <<>> THEN EmptyDict
    ELSE user_groups_loop(df, 1, EmptyDict)

\* the list `groups` of one row, access-export page
row_groups_export(df, i) ==
    (IF notna(cell(df, i, MAIN_GROUP))
     THEN <<cell(df, i, USER_NAME), cell(df, i, MAIN_GROUP)>>
     ELSE <<cell(df, i, USER_NAME)>>)
    \o (IF notna(cell(df, i, ADDL_GROUP))
        THEN additional_groups(cell(df, i, ADDL_GROUP))
        ELSE <<>>)

RECURSIVE user_groups_loop_export(_, _, _)
user_groups_loop_export(df, i, d) ==
    IF i > Len(df.rows) THEN d
    ELSE user_groups_loop_export(df, i + 1,
             DictSet(d, cell(df, i, USER_NAME), ToSet(row_groups_export(df, i))))

\* get_user_groups of the access-export page
get_user_groups_export(df) ==
    IF missing_columns(df) # <<>> THEN EmptyDict
    ELSE user_groups_loop_export(df, 1, EmptyDict)

-----------------------------------------------------------------------------
(* Access resolver *)

\* row['VHFROM'] if pd.notna(row['VHFROM']) else None
row_access(df, i) ==
    IF notna(cell(df, i, VHFROM)) THEN cell(df, i, VHFROM) ELSE None

\* `if access:`
truthy(access) == access # None /\ access # <<>>

\* df['JNUSER'].str.startswith('GR', na=False), for one row
is_group_row(df, i) ==
    /\ notna(cell(df, i, JNUSER))
    /\ startswith(cell(df, i, JNUSER), GR)

\* is_public_row comparing with 'PUBLIC', the asterisk dropped
is_public_row_no_star(df, i) == cell(df, i, JNUSER) = Tail(PUBLIC)

\* df['JNUSER'] == '*PUBLIC', for one row
is_public_row(df, i) == cell(df, i, JNUSER) = PUBLIC

\* add_access assigning the set {access} instead of adding to the set
add_access_overwrite(d, subject, access) ==
    IF truthy(access) THEN DictSet(d, subject, {access})
    ELSE IF subject \notin DOMAIN d THEN DictSet(d, subject, {}) ELSE d

\* add_access entering the subject only when the row has an access value
add_access_lazy(d, subject, access) ==
    IF truthy(access) THEN DictSet(d, subject, DictGet(d, subject) \cup {access})
    ELSE d

\* one pass of the loop body shared by the access resolvers
add_access(d, subject, access) ==
    LET d1 == IF subject \notin DOMAIN d THEN DictSet(d, subject, {}) ELSE d
    IN  IF truthy(access)
        THEN DictSet(d1, subject, d1[subject] \cup {access})
        ELSE d1

RECURSIVE group_accesses_loop(_, _, _)
group_accesses_loop(df, i, d) ==
    IF i > Len(df.rows) THEN d
    ELSE IF is_group_row(df, i)
         THEN group_accesses_loop(df, i + 1,
                  add_access(d, cell(df, i, JNUSER), row_access(df, i)))
         ELSE group_accesses_loop(df, i + 1, d)

get_group_accesses(df) == group_accesses_loop(df, 1, EmptyDict)

RECURSIVE public_accesses_loop(_, _, _)
public_accesses_loop(df, i, s) ==
    IF i > Len(df.rows) THEN s
    ELSE IF is_public_row(df, i) /\ truthy(row_access(df, i))
         THEN public_accesses_loop(df, i + 1, s \cup {row_access(df, i)})
         ELSE public_accesses_loop(df, i + 1, s)

get_public_accesses(df) == public_accesses_loop(df, 1, {})

\* skip_row that skips the group rows as well as the public rows
skip_row_exclusive(df, i) ==
    \/ cell(df, i, JNUSER) = PUBLIC
    \/ notna(cell(df, i, JNUSER)) /\ startswith(cell(df, i, JNUSER), GR)

\* `if user == '*PUBLIC': continue` of the analyzer page
skip_row(df, i) == cell(df, i, JNUSER) = PUBLIC

RECURSIVE user_accesses_loop(_, _, _)
user_accesses_loop(df, i, d) ==
    IF i > Len(df.rows) THEN d
    ELSE IF skip_row(df, i)
         THEN user_accesses_loop(df, i + 1, d)
         ELSE user_accesses_loop(df, i + 1,
                  add_access(d, cell(df, i, JNUSER), row_access(df, i)))

\* get_user_accesses of the analyzer page
get_user_accesses(df) == user_accesses_loop(df, 1, EmptyDict)

RECURSIVE user_accesses_loop_export(_, _, _)
user_accesses_loop_export(df, i, d) ==
    IF i > Len(df.rows) THEN d
    ELSE user_accesses_loop_export(df, i + 1,
             add_access(d, cell(df, i, JNUSER), row_access(df, i)))

\* get_user_accesses of the access-export page
get_user_accesses_export(df) == user_accesses_loop_export(df, 1, EmptyDict)

-----------------------------------------------------------------------------
(* Reconciliation *)

\* expected_accesses with the public accesses forgotten
expected_accesses_without_public(groups, ga, pa) ==
    UNION {ga[g] : g \in groups \cap DOMAIN ga}

\* all_expected_accesses of one user: the public accesses and the accesses
\* of the user's groups that are keys of group_accesses
expected_accesses(groups, ga, pa) ==
    pa \cup UNION {ga[g] : g \in groups \cap DOMAIN ga}

\* extra_of with the operands of the difference exchanged
extra_of_swapped(user, groups, ua, ga, pa) ==
    (pa \cup UNION {ga[g] : g \in groups \cap DOMAIN ga}) \ DictGet(ua, user)

\* actual_accesses - all_expected_accesses
extra_of(user, groups, ua, ga, pa) ==
    DictGet(ua, user) \ expected_accesses(groups, ga, pa)

RECURSIVE find_extra_loop(_, _, _, _, _, _, _)
find_extra_loop(order, i, ug, ua, ga, pa, d) ==
    IF i > Len(order) THEN d
    ELSE LET user  == order[i]
             extra == extra_of(user, ug[user], ua, ga, pa)
         IN  find_extra_loop(order, i + 1, ug, ua, ga, pa,
                 IF extra # {} THEN DictSet(d, user, extra) ELSE d)

\* all_expected_accesses built up as the loop of lines 368-370 does, visiting
\* the groups in the given order
RECURSIVE expected_in_order(_, _, _, _)
expected_in_order(group_order, i, ga, all_expected_accesses) ==
    IF i > Len(group_order) THEN all_expected_accesses
    ELSE expected_in_order(group_order, i + 1, ga,
             IF group_order[i] \in DOMAIN ga
             THEN all_expected_accesses \cup ga[group_order[i]]
             ELSE all_expected_accesses)

\* all_expected_accesses = public_accesses: the same object, not a copy
set_alias(s) == [elements |-> s, shared |-> TRUE]

\* set(public_accesses): a new object with the same elements
set_copy(s) == [elements |-> s, shared |-> FALSE]

\* the object public_accesses after the loop: update() (line 370) changes
\* the object all_expected_accesses of the iteration, and no other
RECURSIVE public_after_loop(_, _, _, _, _)
public_after_loop(order, i, ug, ga, pa) ==
    IF i > Len(order) THEN pa
    ELSE LET all_expected_accesses == set_copy(pa)
             updated == expected_in_order(SetToSeq(ug[order[i]]), 1, ga,
                                          all_expected_accesses.elements)
         IN  public_after_loop(order, i + 1, ug, ga,
                 IF all_expected_accesses.shared THEN updated ELSE pa)

\* the argument public_accesses after a call of find_extra_accesses; the
\* other arguments are only read
public_after_find_extra(ug, ga, pa) ==
    public_after_loop(KeyOrder(ug), 1, ug, ga, pa)

\* find_extra_accesses, visiting user_groups.items() in the given order
find_extra_accesses_in(order, ug, ua, ga, pa) ==
    find_extra_loop(order, 1, ug, ua, ga, pa, EmptyDict)

find_extra_accesses(ug, ua, ga, pa) ==
    find_extra_accesses_in(KeyOrder(ug), ug, ua, ga, pa)

-----------------------------------------------------------------------------
(* Identifiers the inputs are drawn from *)

U1 == <<"U", "1">>
U2 == <<"U", "2">>
G1 == <<"G", "1">>
GR1 == <<"G", "R", "1">>
GR2 == <<"G", "R", "2">>
X == <<"X">>
Y == <<"Y">>
Z == <<"Z">>
W == <<"W">>

AccessPool == <<X, Y, Z, W>>

\* how many access identifiers the inputs of find_extra_accesses range over
MaxAccesses == 2

Accesses == {AccessPool[i] : i \in 1..MaxAccesses}

\* dicts with keys among Keys and values among Values
Dicts(Keys, Values) == UNION {[D -> Values] : D \in SUBSET Keys}

\* two dicts with no common key, put together
Merge(d1, d2) ==
    [k \in DOMAIN d1 \cup DOMAIN d2 |-> IF k \in DOMAIN d1 THEN d1[k] ELSE d2[k]]

-----------------------------------------------------------------------------
(* State the run of a script starts from *)

NoExc == "none"

NoFile == [uploaded |-> FALSE, readable |-> FALSE, header |-> <<>>, rows |-> <<>>]

NoStats == [computed |-> FALSE]

\* nothing loaded, computed or displayed yet
Blank ==
    /\ user_groups_df = NoDataFrame
    /\ master_df = NoDataFrame
    /\ user_groups = EmptyDict
    /\ group_accesses = EmptyDict
    /\ user_accesses = EmptyDict
    /\ public_accesses = {}
    /\ extra_accesses = EmptyDict
    /\ stats = NoStats
    /\ bound = {}
    /\ extra_access_data = <<>>
    /\ extra_df = <<>>
    /\ selected_accesses = {}
    /\ filtered_data = <<>>
    /\ export_csv = <<>>
    /\ shown = {}
    /\ errors = <<>>
    /\ exc = NoExc

-----------------------------------------------------------------------------
(* find_extra_accesses on its own: every input of the bounded families *)

FindUserGroups ==
    {Merge(a, b) : a \in Dicts({U1}, SUBSET {GR1, GR2}),
                   b \in Dicts({U2}, {{}, {GR2}})}

FindUserAccesses ==
    {Merge(a, b) : a \in Dicts({U1}, SUBSET Accesses),
                   b \in Dicts({U2}, {{AccessPool[1]}})}

FindGroupAccesses == Dicts({GR1, GR2}, SUBSET Accesses)

InitFind ==
    /\ page = "Home"
    /\ pc = "find_extra_accesses"
    /\ ug_file = NoFile
    /\ acc_file = NoFile
    /\ user_groups_df = NoDataFrame
    /\ master_df = NoDataFrame
    /\ user_groups \in FindUserGroups
    /\ user_accesses \in FindUserAccesses
    /\ group_accesses \in FindGroupAccesses
    /\ public_accesses \in SUBSET Accesses
    /\ extra_accesses = EmptyDict
    /\ stats = NoStats
    /\ bound = {}
    /\ extra_access_data = <<>>
    /\ extra_df = <<>>
    /\ selected_accesses = {}
    /\ filtered_data = <<>>
    /\ export_csv = <<>>
    /\ shown = {}
    /\ errors = <<>>
    /\ exc = NoExc

\* the call of line 516 on the drawn arguments
CallFindExtra ==
    /\ pc = "find_extra_accesses"
    /\ extra_accesses' = find_extra_accesses(user_groups, user_accesses,
                                             group_accesses, public_accesses)
    /\ public_accesses' = public_after_find_extra(user_groups, group_accesses,
                                                  public_accesses)
    /\ pc' = "found"
    /\ UNCHANGED <<files, user_groups_df, master_df, user_groups,
                   group_accesses, user_accesses, exc, report>>

\* the same call once more, with one more access identifier in public_accesses
CallFindExtraMorePublic ==
    /\ pc = "found"
    /\ \E a \in Accesses \ public_accesses :
          /\ public_accesses' = public_after_find_extra(user_groups,
                                   group_accesses, public_accesses \cup {a})
          /\ extra_accesses' = find_extra_accesses(user_groups, user_accesses,
                                   group_accesses, public_accesses \cup {a})
    /\ UNCHANGED <<files, pc, user_groups_df, master_df, user_groups,
                   group_accesses, user_accesses, exc, report>>

NextFind == CallFindExtra \/ CallFindExtraMorePublic

SpecFind == InitFind /\ [][NextFind]_vars

-----------------------------------------------------------------------------
(* get_user_groups of both pages on its own: every membership file of the  *)
(* bounded family, read by load_csv                                        *)

A == <<"A">>
B == <<"B">>
ExampleAddl == <<"B", ",", " ", "C", " ", "D">>

\* the longest additional-groups field drawn character by character
MaxAddlLen == 2

AddlAlphabet == {"B", ",", " "}

AddlFields ==
    UNION {[1..n -> AddlAlphabet] : n \in 0..MaxAddlLen} \cup {ExampleAddl}

\* a row of the membership file: USER_NAME, MAIN_GROUP, ADDL_GROUP
FirstRows == {<<u, m, a>> : u \in {U1, U2, <<>>}, m \in {A, <<>>}, a \in AddlFields}

LaterRows == {<<u, m, a>> : u \in {U1, U2, <<>>}, m \in {A, <<>>}, a \in {<<>>, B}}

MembershipRows ==
    {<<>>} \cup {<<r>> : r \in FirstRows}
           \cup {<<r, q>> : r \in FirstRows, q \in LaterRows}

MembershipFile(rows) ==
    [uploaded |-> TRUE, readable |-> TRUE,
     header |-> <<USER_NAME, MAIN_GROUP, ADDL_GROUP>>, rows |-> rows]

InitGroups ==
    /\ page \in {"Home", "Export"}
    /\ pc = "load_csv"
    /\ ug_file \in {MembershipFile(rows) : rows \in MembershipRows}
    /\ acc_file = NoFile
    /\ Blank

\* user_groups_df = load_csv(user_groups_file)
LoadMembership ==
    /\ pc = "load_csv"
    /\ user_groups_df' = load_csv(ug_file)
    /\ pc' = "get_user_groups"
    /\ UNCHANGED <<files, master_df, user_groups, group_accesses,
                   user_accesses, public_accesses, extra_accesses, exc, report>>

\* user_groups = get_user_groups(user_groups_df), analyzer page
CallGetUserGroups ==
    /\ pc = "get_user_groups"
    /\ page = "Home"
    /\ user_groups' = get_user_groups(user_groups_df)
    /\ pc' = "resolved"
    /\ UNCHANGED <<files, user_groups_df, master_df, group_accesses,
                   user_accesses, public_accesses, extra_accesses, exc, report>>

\* user_groups = get_user_groups(user_groups_df), access-export page
CallGetUserGroupsExport ==
    /\ pc = "get_user_groups"
    /\ page = "Export"
    /\ user_groups' = get_user_groups_export(user_groups_df)
    /\ pc' = "resolved"
    /\ UNCHANGED <<files, user_groups_df, master_df, group_accesses,
                   user_accesses, public_accesses, extra_accesses, exc, report>>

NextGroups == LoadMembership \/ CallGetUserGroups \/ CallGetUserGroupsExport

SpecGroups == InitGroups /\ [][NextGroups]_vars

-----------------------------------------------------------------------------
(* The access resolvers of both pages on their own: every access file of   *)
(* the bounded family, read by load_csv                                    *)

\* the most rows an access file of this family has
MaxAccessRows == 3

\* a row of the access file: JNUSER, VHFROM
AccessRowValues ==
    {<<s, a>> : s \in {U1, GR1, G1, PUBLIC, <<>>}, a \in {X, Y, <<>>}}

AccessRows == UNION {[1..n -> AccessRowValues] : n \in 0..MaxAccessRows}

AccessFile(rows) ==
    [uploaded |-> TRUE, readable |-> TRUE,
     header |-> <<JNUSER, VHFROM>>, rows |-> rows]

InitAccess ==
    /\ page \in {"Home", "Export"}
    /\ pc = "load_csv"
    /\ ug_file = NoFile
    /\ acc_file \in {AccessFile(rows) : rows \in AccessRows}
    /\ Blank

\* master_users_groups_df = load_csv(master_users_groups_file)
LoadMaster ==
    /\ pc = "load_csv"
    /\ master_df' = load_csv(acc_file)
    /\ pc' = IF page = "Home" THEN "get_group_accesses" ELSE "get_user_accesses"
    /\ UNCHANGED <<files, user_groups_df, user_groups, group_accesses,
                   user_accesses, public_accesses, extra_accesses, exc, report>>

\* group_accesses = get_group_accesses(master_users_groups_df); the .str
\* accessor of line 320 raises on a column that holds no text
CallGetGroupAccesses ==
    /\ pc = "get_group_accesses"
    /\ IF is_text_column(master_df, JNUSER)
       THEN /\ group_accesses' = get_group_accesses(master_df)
            /\ pc' = "get_user_accesses"
            /\ exc' = exc
       ELSE /\ group_accesses' = group_accesses
            /\ pc' = "raised"
            /\ exc' = "AttributeError"
    /\ UNCHANGED <<files, user_groups_df, master_df, user_groups,
                   user_accesses, public_accesses, extra_accesses, report>>

\* user_accesses = get_user_accesses(master_users_groups_df), analyzer page
CallGetUserAccesses ==
    /\ pc = "get_user_accesses"
    /\ page = "Home"
    /\ user_accesses' = get_user_accesses(master_df)
    /\ pc' = "get_public_accesses"
    /\ UNCHANGED <<files, user_groups_df, master_df, user_groups,
                   group_accesses, public_accesses, extra_accesses, exc, report>>

\* public_accesses = get_public_accesses(master_users_groups_df)
CallGetPublicAccesses ==
    /\ pc = "get_public_accesses"
    /\ public_accesses' = get_public_accesses(master_df)
    /\ pc' = "resolved"
    /\ UNCHANGED <<files, user_groups_df, master_df, user_groups,
                   group_accesses, user_accesses, extra_accesses, exc, report>>

\* user_accesses = get_user_accesses(master_users_groups_df), access-export page
CallGetUserAccessesExport ==
    /\ pc = "get_user_accesses"
    /\ page = "Export"
    /\ user_accesses' = get_user_accesses_export(master_df)
    /\ pc' = "resolved"
    /\ UNCHANGED <<files, user_groups_df, master_df, user_groups,
                   group_accesses, public_accesses, extra_accesses, exc, report>>

NextAccess ==
    \/ LoadMaster
    \/ CallGetGroupAccesses
    \/ CallGetUserAccesses
    \/ CallGetPublicAccesses
    \/ CallGetUserAccessesExport

SpecAccess == InitAccess /\ [][NextAccess]_vars

-----------------------------------------------------------------------------
(* Text of the report: sorted(), ", ".join(), str.lower() *)

\* the characters of the model in code-point order
CharOrder ==
    << "\t", "\n", VT, "\f", "\r", " ", "\"", "#", "*", ",", "-", "/",
       "0", "1", "2", "3", "4", "5", "6", "7", "8", "9", "<", ">",
       "A", "B", "C", "D", "E", "F", "G", "H", "I", "J", "K", "L", "M",
       "N", "O", "P", "Q", "R", "S", "T", "U", "V", "W", "X", "Y", "Z", "_",
       "a", "b", "c", "d", "e", "f", "g", "h", "i", "j", "k", "l", "m",
       "n", "o", "p", "q", "r", "s", "t", "u", "v", "w", "x", "y", "z" >>

ord(c) == CHOOSE i \in 1..Len(CharOrder) : CharOrder[i] = c

\* a < b for two texts
RECURSIVE str_less(_, _)
str_less(a, b) ==
    IF b = <<>> THEN FALSE
    ELSE IF a = <<>> THEN TRUE
    ELSE IF Head(a) = Head(b) THEN str_less(Tail(a), Tail(b))
    ELSE ord(Head(a)) < ord(Head(b))

\* sorted with the greatest text first
RECURSIVE sorted_descending(_)
sorted_descending(S) ==
    IF S = {} THEN <<>>
    ELSE LET most == CHOOSE x \in S : \A y \in S : x = y \/ str_less(y, x)
         IN  <<most>> \o sorted_descending(S \ {most})

\* sorted(S) for a set of texts
RECURSIVE sorted(_)
sorted(S) ==
    IF S = {} THEN <<>>
    ELSE LET least == CHOOSE x \in S : \A y \in S : x = y \/ str_less(x, y)
         IN  <<least>> \o sorted(S \ {least})

CommaSpace == <<",", " ">>

\* ", ".join(list)
RECURSIVE join(_)
join(list) ==
    IF list = <<>> THEN <<>>
    ELSE IF Len(list) = 1 THEN list[1]
    ELSE list[1] \o CommaSpace \o join(Tail(list))

UpperCase ==
    << "A", "B", "C", "D", "E", "F", "G", "H", "I", "J", "K", "L", "M",
       "N", "O", "P", "Q", "R", "S", "T", "U", "V", "W", "X", "Y", "Z" >>

LowerCase ==
    << "a", "b", "c", "d", "e", "f", "g", "h", "i", "j", "k", "l", "m",
       "n", "o", "p", "q", "r", "s", "t", "u", "v", "w", "x", "y", "z" >>

\* str.lower()
lower(s) ==
    [i \in 1..Len(s) |->
        IF \E k \in 1..Len(UpperCase) : UpperCase[k] = s[i]
        THEN LowerCase[CHOOSE k \in 1..Len(UpperCase) : UpperCase[k] = s[i]]
        ELSE s[i]]

\* `a in b` for two texts
contains(b, a) ==
    \E i \in 1..(Len(b) - Len(a) + 1) : SubSeq(b, i, i + Len(a) - 1) = a

-----------------------------------------------------------------------------
(* CSV text: DataFrame.to_csv(index=False) and the reading of a file's     *)
(* content by load_csv                                                      *)

\* whether csv.QUOTE_MINIMAL puts the field between quotes
needs_quoting(f) == \E i \in 1..Len(f) : f[i] \in {",", "\"", "\n", "\r"}

\* the quote character doubled
RECURSIVE double_quotes(_)
double_quotes(f) ==
    IF f = <<>> THEN <<>>
    ELSE (IF Head(f) = "\"" THEN <<"\"", "\"">> ELSE <<Head(f)>>)
         \o double_quotes(Tail(f))

\* quote_field leaving every field as it is
quote_field_never(f) == f

quote_field(f) ==
    IF needs_quoting(f) THEN <<"\"">> \o double_quotes(f) \o <<"\"">> ELSE f

\* the text to_csv writes for a value: a number in decimal, a missing value
\* as nothing, a text quoted where needed
format_value(kind, v) ==
    IF kind = "int" THEN str_of_int(v)
    ELSE IF isna(v) THEN <<>>
    ELSE IF ~is_str(v) THEN Tail(v)
    ELSE quote_field(v)

RECURSIVE join_with(_, _)
join_with(list, sep) ==
    IF list = <<>> THEN <<>>
    ELSE IF Len(list) = 1 THEN list[1]
    ELSE list[1] \o sep \o join_with(Tail(list), sep)

\* one line of the file, the line terminator included
csv_line(fields) == join_with(fields, <<",">>) \o <<"\n">>

RECURSIVE csv_lines(_)
csv_lines(lines) ==
    IF lines = <<>> THEN <<>> ELSE csv_line(Head(lines)) \o csv_lines(Tail(lines))

\* df.to_csv(index=False) for the frame of the given columns and rows
to_csv(columns, rows) ==
    csv_lines(<<[j \in 1..Len(columns) |-> quote_field(columns[j].name)]>>
              \o [i \in 1..Len(rows) |->
                     [j \in 1..Len(columns) |->
                        format_value(columns[j].kind, rows[i][columns[j].field])]])

\* the elements of s at the positions K, in the order of the positions
at_positions(s, K) ==
    [n \in 1..Cardinality(K) |->
        s[CHOOSE k \in K : Cardinality({j \in K : j < k}) = n - 1]]

\* the pieces of s between the positions K, the elements at K left out
pieces(s, K) ==
    LET nth(n) == CHOOSE k \in K : Cardinality({j \in K : j < k}) = n - 1
    IN  [n \in 1..(Cardinality(K) + 1) |->
            SubSeq(s, IF n = 1 THEN 1 ELSE nth(n - 1) + 1,
                      IF n = Cardinality(K) + 1 THEN Len(s) ELSE nth(n) - 1)]

\* content.split('\n')[0]
sample_line(content) ==
    Head(pieces(content, {i \in 1..Len(content) : content[i] = "\n"}))

\* delimiter = None: pandas is left to infer it
Sniffed == "sniffed"

\* the delimiter load_csv detects on the first line
detect_delimiter(content) ==
    IF \E i \in 1..Len(sample_line(content)) : sample_line(content)[i] = "\t"
    THEN "\t"
    ELSE IF \E i \in 1..Len(sample_line(content)) : sample_line(content)[i] = ","
    THEN ","
    ELSE Sniffed

\* how many quote characters s has before position i
quotes_before(s, i) == Cardinality({k \in 1..(i - 1) : s[k] = "\""})

\* the positions of s that hold one of the given characters outside quotes
breaks(s, chars) ==
    {i \in 1..Len(s) : s[i] \in chars /\ quotes_before(s, i) % 2 = 0}

\* the value of a field: the quotes that open and close are dropped and a
\* doubled quote inside quotes stands for one quote
unquote(f) ==
    at_positions(f, {k \in 1..Len(f) :
        \/ f[k] # "\""
        \/ /\ k > 1
           /\ f[k - 1] = "\""
           /\ quotes_before(f, k) > 0
           /\ quotes_before(f, k) % 2 = 0})

\* the fields of one record
record_fields(line, delim) ==
    LET raw == pieces(line, breaks(line, {delim}))
    IN  [j \in 1..Len(raw) |-> unquote(raw[j])]

\* the records and fields pandas.read_csv tokenizes the content into: a
\* line break inside quotes does not end the record, blank lines are skipped
tokenize(content, delim) ==
    LET lines == SelectSeq(pieces(content, breaks(content, {"\n", "\r"})),
                           LAMBDA l : l # <<>>)
    IN  [i \in 1..Len(lines) |-> record_fields(lines[i], delim)]

\* the uploaded file whose decoded content is the given text: its first
\* record is the header and a shorter record is filled up with missing
\* fields; a content without a record, or with a record longer than the
\* header, makes read_csv raise
content_file(content) ==
    LET records == tokenize(content, detect_delimiter(content))
    IN  IF records = <<>> \/ \E i \in 2..Len(records) : Len(records[i]) > Len(records[1])
        THEN [uploaded |-> TRUE, readable |-> FALSE, header |-> <<>>, rows |-> <<>>]
        ELSE [uploaded |-> TRUE, readable |-> TRUE,
              header |-> Head(records),
              rows |-> [i \in 1..(Len(records) - 1) |->
                          [j \in 1..Len(records[1]) |->
                             IF j <= Len(records[i + 1]) THEN records[i + 1][j]
                             ELSE <<>>]]]

\* the column labels of the two reports
ColUser == <<"U", "s", "e", "r">>
ColExtraAccesses == <<"E", "x", "t", "r", "a", " ", "A", "c", "c", "e", "s", "s", "e", "s">>
ColExtraAccessCount == <<"E", "x", "t", "r", "a", " ", "A", "c", "c", "e", "s", "s", " ", "C", "o", "u", "n", "t">>
ColAssignedGroups == <<"A", "s", "s", "i", "g", "n", "e", "d", " ", "G", "r", "o", "u", "p", "s">>
ColGroupCount == <<"G", "r", "o", "u", "p", " ", "C", "o", "u", "n", "t">>
ColTotalAccessCount == <<"T", "o", "t", "a", "l", " ", "A", "c", "c", "e", "s", "s", " ", "C", "o", "u", "n", "t">>
ColGroups == <<"G", "r", "o", "u", "p", "s">>
ColAccesses == <<"A", "c", "c", "e", "s", "s", "e", "s">>

\* the columns of extra_df, in the order of the keys of its rows
ExtraColumns ==
    << [name |-> ColUser,             field |-> "User",             kind |-> "str"],
       [name |-> ColExtraAccesses,    field |-> "ExtraAccesses",    kind |-> "str"],
       [name |-> ColExtraAccessCount, field |-> "ExtraAccessCount", kind |-> "int"],
       [name |-> ColAssignedGroups,   field |-> "AssignedGroups",   kind |-> "str"],
       [name |-> ColGroupCount,       field |-> "GroupCount",       kind |-> "int"],
       [name |-> ColTotalAccessCount, field |-> "TotalAccessCount", kind |-> "int"] >>

\* the columns of filtered_df
FilteredColumns ==
    << [name |-> ColUser,     field |-> "User",     kind |-> "str"],
       [name |-> ColGroups,   field |-> "Groups",   kind |-> "str"],
       [name |-> ColAccesses, field |-> "Accesses", kind |-> "str"] >>

-----------------------------------------------------------------------------
(* Statistics and the tables of the analyzer page *)

\* sum of len(value) over the values of a dict
RECURSIVE total_len(_, _)
total_len(d, keys) ==
    IF keys = {} THEN 0
    ELSE LET k == CHOOSE x \in keys : TRUE
         IN  Cardinality(d[k]) + total_len(d, keys \ {k})

\* sum(...) / len(d) if d else 0, kept as the pair of the sum and the count
average(d) == <<total_len(d, DOMAIN d), Cardinality(DOMAIN d)>>

\* generate_summary_stats, without the two most_common lists (their order
\* among ties is that of the Counter)
generate_summary_stats(ug, ua, ga, ea, pa) ==
    [ computed                |-> TRUE,
      total_users             |-> Cardinality(DOMAIN ug),
      total_groups            |-> Cardinality(DOMAIN ga),
      users_with_extra_access |-> Cardinality(DOMAIN ea),
      total_unique_accesses   |-> Cardinality(UNION {ua[u] : u \in DOMAIN ua}),
      public_accesses         |-> Cardinality(pa),
      avg_group_per_user      |-> average(ug),
      avg_access_per_user     |-> average(ua),
      avg_access_per_group    |-> average(ga) ]

\* one row of extra_access_data
extra_access_row(user, ug, ua, ea) ==
    [ User             |-> user,
      ExtraAccesses    |-> join(sorted(ea[user])),
      ExtraAccessCount |-> Cardinality(ea[user]),
      AssignedGroups   |-> join(sorted(DictGet(ug, user))),
      GroupCount       |-> Cardinality(DictGet(ug, user)),
      TotalAccessCount |-> Cardinality(DictGet(ua, user)) ]

\* extra_access_data: one row for each item of extra_accesses
build_extra_access_data(ug, ua, ea) ==
    LET order == KeyOrder(ea)
    IN  [i \in 1..Len(order) |-> extra_access_row(order[i], ug, ua, ea)]

\* the orders sort_values('Extra Access Count', ascending=False) may give:
\* the sort is not stable, so rows with equal counts come in any order
sort_values_by_count(data) ==
    {[i \in 1..Len(data) |-> data[f[i]]] : f \in
        {g \in Permutations(1..Len(data)) :
            \A i, j \in 1..Len(data) :
                i < j => data[g[i]].ExtraAccessCount >= data[g[j]].ExtraAccessCount}}

\* users_list of a group: the users whose group set holds it
users_in_group(ug, group) == {u \in DOMAIN ug : group \in ug[u]}

-----------------------------------------------------------------------------
(* A run of main(), analyzer page (lines 470-757) *)

\* st.error(...) messages
LoadError == [kind |-> "Error loading file", column |-> <<>>]
LoadFailed == [kind |-> "Error loading CSV files", column |-> <<>>]
MissingColumn(c) == [kind |-> "Missing required column", column |-> c]

\* the messages of load_csv for the two files
load_errors ==
    (IF ~ug_file.readable THEN <<LoadError>> ELSE <<>>)
    \o (IF ~acc_file.readable THEN <<LoadError>> ELSE <<>>)

\* the message of get_user_groups for the first required column df lacks
column_errors(df) ==
    IF missing_columns(df) # <<>>
    THEN <<MissingColumn(Head(missing_columns(df)))>>
    ELSE <<>>

\* `if user_groups_file and master_users_groups_file:`, else the welcome screen
HomeStart ==
    /\ page = "Home"
    /\ pc = "main.start"
    /\ IF ug_file.uploaded /\ acc_file.uploaded
       THEN pc' = "main.load_csv" /\ shown' = shown
       ELSE pc' = "main.done" /\ shown' = shown \cup {"welcome"}
    /\ UNCHANGED <<files, user_groups_df, master_df, user_groups, group_accesses,
                   user_accesses, public_accesses, extra_accesses, stats, bound,
                   extra_access_data, extra_df, selected_accesses, filtered_data,
                   export_csv, errors, exc>>

\* the two load_csv calls and the test that both returned a table
HomeLoad ==
    /\ page = "Home"
    /\ pc = "main.load_csv"
    /\ user_groups_df' = load_csv(ug_file)
    /\ master_df' = load_csv(acc_file)
    /\ IF load_csv(ug_file).loaded /\ load_csv(acc_file).loaded
       THEN /\ pc' = "main.get_user_groups"
            /\ shown' = shown \cup {"Files loaded successfully!"}
            /\ errors' = errors \o load_errors
       ELSE /\ pc' = "main.done"
            /\ shown' = shown
            /\ errors' = errors \o load_errors \o <<LoadFailed>>
    /\ UNCHANGED <<files, user_groups, group_accesses, user_accesses,
                   public_accesses, extra_accesses, stats, bound, extra_access_data,
                   extra_df, selected_accesses, filtered_data, export_csv, exc>>

\* user_groups = get_user_groups(user_groups_df)
HomeGetUserGroups ==
    /\ page = "Home"
    /\ pc = "main.get_user_groups"
    /\ user_groups' = get_user_groups(user_groups_df)
    /\ errors' = errors \o column_errors(user_groups_df)
    /\ pc' = "main.get_group_accesses"
    /\ UNCHANGED <<files, user_groups_df, master_df, group_accesses, user_accesses,
                   public_accesses, extra_accesses, stats, bound, extra_access_data,
                   extra_df, selected_accesses, filtered_data, export_csv, shown, exc>>

\* the exception get_group_accesses raises on df, or NoExc
get_group_accesses_raises(df) ==
    IF ~has_column(df, JNUSER) THEN "KeyError"
    ELSE IF ~is_text_column(df, JNUSER) THEN "AttributeError"
    ELSE IF ~has_column(df, VHFROM) /\ \E i \in 1..Len(df.rows) : is_group_row(df, i)
         THEN "KeyError"
    ELSE NoExc

\* group_accesses = get_group_accesses(master_users_groups_df)
HomeGetGroupAccesses ==
    /\ page = "Home"
    /\ pc = "main.get_group_accesses"
    /\ IF get_group_accesses_raises(master_df) = NoExc
       THEN /\ group_accesses' = get_group_accesses(master_df)
            /\ pc' = "main.get_user_accesses"
            /\ exc' = exc
       ELSE /\ group_accesses' = group_accesses
            /\ pc' = "main.raised"
            /\ exc' = get_group_accesses_raises(master_df)
    /\ UNCHANGED <<files, user_groups_df, master_df, user_groups, user_accesses,
                   public_accesses, extra_accesses, report>>

\* the exception get_user_accesses raises on df, or NoExc (either page)
get_user_accesses_raises(df) ==
    IF Len(df.rows) > 0 /\ (~has_column(df, JNUSER) \/ ~has_column(df, VHFROM))
    THEN "KeyError"
    ELSE NoExc

\* user_accesses = get_user_accesses(master_users_groups_df)
HomeGetUserAccesses ==
    /\ page = "Home"
    /\ pc = "main.get_user_accesses"
    /\ IF get_user_accesses_raises(master_df) = NoExc
       THEN /\ user_accesses' = get_user_accesses(master_df)
            /\ pc' = "main.get_public_accesses"
            /\ exc' = exc
       ELSE /\ user_accesses' = user_accesses
            /\ pc' = "main.raised"
            /\ exc' = get_user_accesses_raises(master_df)
    /\ UNCHANGED <<files, user_groups_df, master_df, user_groups, group_accesses,
                   public_accesses, extra_accesses, report>>

\* the exception get_public_accesses raises on df, or NoExc
get_public_accesses_raises(df) ==
    IF ~has_column(df, JNUSER) THEN "KeyError"
    ELSE IF ~has_column(df, VHFROM) /\ \E i \in 1..Len(df.rows) : is_public_row(df, i)
         THEN "KeyError"
    ELSE NoExc

\* public_accesses = get_public_accesses(master_users_groups_df)
HomeGetPublicAccesses ==
    /\ page = "Home"
    /\ pc = "main.get_public_accesses"
    /\ IF get_public_accesses_raises(master_df) = NoExc
       THEN /\ public_accesses' = get_public_accesses(master_df)
            /\ pc' = "main.find_extra_accesses"
            /\ exc' = exc
       ELSE /\ public_accesses' = public_accesses
            /\ pc' = "main.raised"
            /\ exc' = get_public_accesses_raises(master_df)
    /\ UNCHANGED <<files, user_groups_df, master_df, user_groups, group_accesses,
                   user_accesses, extra_accesses, report>>

\* extra_accesses = find_extra_accesses(...)
HomeFindExtra ==
    /\ page = "Home"
    /\ pc = "main.find_extra_accesses"
    /\ extra_accesses' = find_extra_accesses(user_groups, user_accesses,
                                             group_accesses, public_accesses)
    /\ public_accesses' = public_after_find_extra(user_groups, group_accesses,
                                                  public_accesses)
    /\ pc' = "main.generate_summary_stats"
    /\ UNCHANGED <<files, user_groups_df, master_df, user_groups, group_accesses,
                   user_accesses, exc, report>>

\* stats = generate_summary_stats(...)
HomeStats ==
    /\ page = "Home"
    /\ pc = "main.generate_summary_stats"
    /\ stats' = generate_summary_stats(user_groups, user_accesses, group_accesses,
                                       extra_accesses, public_accesses)
    /\ pc' = "main.dashboard"
    /\ UNCHANGED <<files, user_groups_df, master_df, user_groups, group_accesses,
                   user_accesses, public_accesses, extra_accesses, bound,
                   extra_access_data, extra_df, selected_accesses, filtered_data,
                   export_csv, shown, errors, exc>>

\* create_visualizations, the metric cards, the charts and the public
\* access section (lines 522-579)
HomeDashboard ==
    /\ page = "Home"
    /\ pc = "main.dashboard"
    /\ shown' = shown \cup {"metrics", "charts", "public accesses"}
    /\ pc' = "main.extra_section"
    /\ UNCHANGED <<files, user_groups_df, master_df, user_groups, group_accesses,
                   user_accesses, public_accesses, extra_accesses, stats, bound,
                   extra_access_data, extra_df, selected_accesses, filtered_data,
                   export_csv, errors, exc>>

\* the section "Users with Extra Access Rights" (lines 584-626):
\* extra_access_data and extra_df are assigned only when extra_accesses is
\* not empty
HomeExtraSection ==
    /\ page = "Home"
    /\ pc = "main.extra_section"
    /\ IF extra_accesses # EmptyDict
       THEN /\ extra_access_data' =
                   build_extra_access_data(user_groups, user_accesses, extra_accesses)
            /\ extra_df' \in sort_values_by_count(
                   build_extra_access_data(user_groups, user_accesses, extra_accesses))
            /\ bound' = bound \cup {"extra_access_data", "extra_df"}
            /\ shown' = shown \cup {"extra access table"}
       ELSE /\ UNCHANGED <<extra_access_data, extra_df, bound>>
            /\ shown' = shown \cup {"no extra access"}
    /\ pc' = "main.group_section"
    /\ UNCHANGED <<files, user_groups_df, master_df, user_groups, group_accesses,
                   user_accesses, public_accesses, extra_accesses, stats,
                   selected_accesses, filtered_data, export_csv, errors, exc>>

\* the exception the section "Group-to-Access Mapping" raises, or NoExc:
\* sort_values on the frame of an empty list has no column to sort by (line
\* 641), and ", ".join(sorted(users_list)) fails on a users_list that holds
\* a user that is no text, NaN or a number (line 658)
group_section_raises(ug, ga) ==
    IF ga = EmptyDict THEN "KeyError"
    ELSE IF \E g \in DOMAIN ga : \E u \in users_in_group(ug, g) : ~is_str(u)
    THEN "TypeError"
    ELSE NoExc

\* the section "Group-to-Access Mapping" (lines 629-658); the table is on
\* the page before an expander fails
HomeGroupSection ==
    /\ page = "Home"
    /\ pc = "main.group_section"
    /\ IF group_section_raises(user_groups, group_accesses) = NoExc
       THEN /\ shown' = shown \cup {"group table"}
            /\ pc' = "main.user_section"
            /\ exc' = exc
       ELSE /\ shown' = IF group_accesses = EmptyDict THEN shown
                        ELSE shown \cup {"group table"}
            /\ pc' = "main.raised"
            /\ exc' = group_section_raises(user_groups, group_accesses)
    /\ UNCHANGED <<files, user_groups_df, master_df, user_groups, group_accesses,
                   user_accesses, public_accesses, extra_accesses, stats, bound,
                   extra_access_data, extra_df, selected_accesses, filtered_data,
                   export_csv, errors>>

\* the texts st.text_input may hold: nothing, or a search for "u"
SearchTexts == {<<>>, <<"u">>}

\* filtered_users of line 667; user.lower() fails on a user that is no text
filtered_users(ug, search_user) ==
    IF search_user # <<>>
    THEN {u \in DOMAIN ug : contains(lower(u), lower(search_user))}
    ELSE DOMAIN ug

\* the section "User Access Analysis" (lines 661-716)
HomeUserSection ==
    /\ page = "Home"
    /\ pc = "main.user_section"
    /\ \E search_user \in SearchTexts :
          IF search_user # <<>> /\ \E u \in DOMAIN user_groups : ~is_str(u)
          THEN /\ pc' = "main.raised"
               /\ exc' = "AttributeError"
               /\ shown' = shown
          ELSE /\ pc' = "main.export"
               /\ exc' = exc
               /\ shown' = shown \cup
                     (IF filtered_users(user_groups, search_user) # {}
                      THEN {"user table"} ELSE {"no users found"})
    /\ UNCHANGED <<files, user_groups_df, master_df, user_groups, group_accesses,
                   user_accesses, public_accesses, extra_accesses, stats, bound,
                   extra_access_data, extra_df, selected_accesses, filtered_data,
                   export_csv, errors>>

\* the section "Export Results" (lines 719-733): `if extra_access_data:`
\* reads a local that is unbound when extra_accesses was empty
HomeExport ==
    /\ page = "Home"
    /\ pc = "main.export"
    /\ IF "extra_access_data" \notin bound
       THEN /\ pc' = "main.raised"
            /\ exc' = "UnboundLocalError"
            /\ UNCHANGED <<export_csv, shown>>
       ELSE /\ pc' = "main.done"
            /\ exc' = exc
            /\ IF extra_access_data # <<>>
               THEN /\ export_csv' = to_csv(ExtraColumns, extra_df)
                    /\ shown' = shown \cup {"download"}
               ELSE UNCHANGED <<export_csv, shown>>
    /\ UNCHANGED <<files, user_groups_df, master_df, user_groups, group_accesses,
                   user_accesses, public_accesses, extra_accesses, stats, bound,
                   extra_access_data, extra_df, selected_accesses, filtered_data,
                   errors>>

-----------------------------------------------------------------------------
(* A run of main(), access-export page (lines 99-173) *)

\* `if user_groups_file and master_users_groups_file:`, else the help card
ExportStart ==
    /\ page = "Export"
    /\ pc = "main.start"
    /\ IF ug_file.uploaded /\ acc_file.uploaded
       THEN pc' = "main.load_csv" /\ shown' = shown
       ELSE pc' = "main.done" /\ shown' = shown \cup {"welcome"}
    /\ UNCHANGED <<files, user_groups_df, master_df, user_groups, group_accesses,
                   user_accesses, public_accesses, extra_accesses, stats, bound,
                   extra_access_data, extra_df, selected_accesses, filtered_data,
                   export_csv, errors, exc>>

\* the two load_csv calls and the test that both returned a table
ExportLoad ==
    /\ page = "Export"
    /\ pc = "main.load_csv"
    /\ user_groups_df' = load_csv(ug_file)
    /\ master_df' = load_csv(acc_file)
    /\ IF load_csv(ug_file).loaded /\ load_csv(acc_file).loaded
       THEN /\ pc' = "main.get_user_groups"
            /\ shown' = shown \cup {"Files loaded successfully!"}
            /\ errors' = errors \o load_errors
       ELSE /\ pc' = "main.done"
            /\ shown' = shown
            /\ errors' = errors \o load_errors \o <<LoadFailed>>
    /\ UNCHANGED <<files, user_groups, group_accesses, user_accesses,
                   public_accesses, extra_accesses, stats, bound, extra_access_data,
                   extra_df, selected_accesses, filtered_data, export_csv, exc>>

\* user_groups = get_user_groups(user_groups_df)
ExportGetUserGroups ==
    /\ page = "Export"
    /\ pc = "main.get_user_groups"
    /\ user_groups' = get_user_groups_export(user_groups_df)
    /\ errors' = errors \o column_errors(user_groups_df)
    /\ pc' = "main.get_user_accesses"
    /\ UNCHANGED <<files, user_groups_df, master_df, group_accesses, user_accesses,
                   public_accesses, extra_accesses, stats, bound, extra_access_data,
                   extra_df, selected_accesses, filtered_data, export_csv, shown, exc>>

\* user_accesses = get_user_accesses(master_users_groups_df)
ExportGetUserAccesses ==
    /\ page = "Export"
    /\ pc = "main.get_user_accesses"
    /\ IF get_user_accesses_raises(master_df) = NoExc
       THEN /\ user_accesses' = get_user_accesses_export(master_df)
            /\ pc' = "main.multiselect"
            /\ exc' = exc
       ELSE /\ user_accesses' = user_accesses
            /\ pc' = "main.raised"
            /\ exc' = get_user_accesses_raises(master_df)
    /\ UNCHANGED <<files, user_groups_df, master_df, user_groups, group_accesses,
                   public_accesses, extra_accesses, report>>

\* all_accesses of lines 128-130
all_accesses(ua) == UNION {ua[u] : u \in DOMAIN ua}

\* the subjects whose accesses hold a selected one, in the order of the loop
selected_subjects(ua, selected) ==
    SelectSeq(KeyOrder(ua), LAMBDA u : ua[u] \cap selected # {})

\* one row of filtered_data
filtered_row(user, ug, ua) ==
    [ User     |-> user,
      Groups   |-> join(sorted(DictGet(ug, user))),
      Accesses |-> join(sorted(ua[user])) ]

\* filtered_data of lines 135-143
build_filtered_data(ug, ua, selected) ==
    LET subjects == selected_subjects(ua, selected)
    IN  [i \in 1..Len(subjects) |-> filtered_row(subjects[i], ug, ua)]

\* sorted(groups) and ", ".join fail on a group set that holds a value that
\* is no text
filter_raises(ug, ua, selected) ==
    IF \E u \in DOMAIN ua :
          ua[u] \cap selected # {} /\ \E g \in DictGet(ug, u) : ~is_str(g)
    THEN "TypeError"
    ELSE NoExc

\* the multiselect and what follows it (lines 128-157)
ExportFilter ==
    /\ page = "Export"
    /\ pc = "main.multiselect"
    /\ \E selected \in SUBSET all_accesses(user_accesses) :
          /\ selected_accesses' = selected
          /\ IF selected = {}
             THEN /\ shown' = shown \cup {"Please select at least one access to filter."}
                  /\ pc' = "main.done"
                  /\ UNCHANGED <<filtered_data, export_csv, exc>>
             ELSE IF filter_raises(user_groups, user_accesses, selected) # NoExc
             THEN /\ pc' = "main.raised"
                  /\ exc' = filter_raises(user_groups, user_accesses, selected)
                  /\ UNCHANGED <<filtered_data, export_csv, shown>>
             ELSE /\ filtered_data' =
                         build_filtered_data(user_groups, user_accesses, selected)
                  /\ export_csv' = to_csv(FilteredColumns,
                         build_filtered_data(user_groups, user_accesses, selected))
                  /\ shown' = shown \cup {"filtered table", "download"}
                  /\ pc' = "main.done"
                  /\ exc' = exc
    /\ UNCHANGED <<files, user_groups_df, master_df, user_groups, group_accesses,
                   user_accesses, public_accesses, extra_accesses, stats, bound,
                   extra_access_data, extra_df, errors>>

-----------------------------------------------------------------------------
(* The runs of both pages on the uploads of a bounded family *)

\* an uploaded file that load_csv cannot decode or parse
UnreadableFile ==
    [uploaded |-> TRUE, readable |-> FALSE, header |-> <<>>, rows |-> <<>>]

RECURSIVE PickFrom(_, _, _)
PickFrom(pool, I, i) ==
    IF i > Len(pool) THEN <<>>
    ELSE (IF i \in I THEN <<pool[i]>> ELSE <<>>) \o PickFrom(pool, I, i + 1)

\* the tables of at most n rows taken from pool in its order
TablesFrom(pool, n) ==
    {PickFrom(pool, I, 1) : I \in {J \in SUBSET (1..Len(pool)) : Cardinality(J) <= n}}

\* the fields of a row under a header that keeps the columns cols
Project(row, cols) == [j \in 1..Len(cols) |-> row[cols[j]]]

TableFile(header, cols, rows) ==
    [uploaded |-> TRUE, readable |-> TRUE, header |-> header,
     rows |-> [i \in 1..Len(rows) |-> Project(rows[i], cols)]]

\* the most rows of a membership file and of an access file
MaxMembershipRows == 2
MaxMasterRows == 4

\* rows USER_NAME, MAIN_GROUP, ADDL_GROUP
MembershipPool ==
    << <<U1, G1, <<>>>>, <<U1, GR1, <<>>>>, <<U2, GR1, GR2>>, <<<<>>, GR1, <<>>>> >>

\* rows JNUSER, VHFROM
MasterPool ==
    << <<U1, X>>, <<G1, Y>>, <<GR1, Y>>, <<PUBLIC, Z>>, <<U1, Y>>, <<U2, <<>>>> >>

\* headers: as required, padded and quoted, and with a column missing
MembershipHeaders ==
    { [names |-> <<USER_NAME, MAIN_GROUP, ADDL_GROUP>>, cols |-> <<1, 2, 3>>],
      [names |-> <<<<" ">> \o USER_NAME, <<"\"">> \o MAIN_GROUP \o <<"\"">>,
                   ADDL_GROUP \o <<" ">>>>, cols |-> <<1, 2, 3>>],
      [names |-> <<USER_NAME, MAIN_GROUP>>, cols |-> <<1, 2>>] }

MasterHeaders ==
    { [names |-> <<JNUSER, VHFROM>>, cols |-> <<1, 2>>],
      [names |-> <<JNUSER>>, cols |-> <<1>>],
      [names |-> <<VHFROM>>, cols |-> <<2>>] }

MembershipFiles ==
    {NoFile, UnreadableFile}
    \cup {TableFile(h.names, h.cols, rows) :
             h \in MembershipHeaders,
             rows \in TablesFrom(MembershipPool, MaxMembershipRows)}

MasterFiles ==
    {NoFile, UnreadableFile}
    \cup {TableFile(h.names, h.cols, rows) :
             h \in MasterHeaders,
             rows \in TablesFrom(MasterPool, MaxMasterRows)}

Init ==
    /\ page \in {"Home", "Export"}
    /\ pc = "main.start"
    /\ ug_file \in MembershipFiles
    /\ acc_file \in MasterFiles
    /\ Blank

Next ==
    \/ HomeStart
    \/ HomeLoad
    \/ HomeGetUserGroups
    \/ HomeGetGroupAccesses
    \/ HomeGetUserAccesses
    \/ HomeGetPublicAccesses
    \/ HomeFindExtra
    \/ HomeStats
    \/ HomeDashboard
    \/ HomeExtraSection
    \/ HomeGroupSection
    \/ HomeUserSection
    \/ HomeExport
    \/ ExportStart
    \/ ExportLoad
    \/ ExportGetUserGroups
    \/ ExportGetUserAccesses
    \/ ExportFilter

Spec == Init /\ [][Next]_vars

-----------------------------------------------------------------------------
(* The run of the analyzer page up to its download, and the downloaded     *)
(* report read again by load_csv                                           *)

FullMembershipHeader == <<USER_NAME, MAIN_GROUP, ADDL_GROUP>>
FullMasterHeader == <<JNUSER, VHFROM>>

\* a user identifier written with digits only, and an access identifier
\* that holds a comma and a space
U7 == <<"7">>
XcY == <<"X", ",", " ", "Y">>

\* rows USER_NAME, MAIN_GROUP, ADDL_GROUP
ReportMembershipPool ==
    << <<U1, GR1, <<>>>>, <<U7, GR1, GR2>>, <<U2, <<>>, <<>>>> >>

\* rows JNUSER, VHFROM
ReportMasterPool ==
    << <<GR1, Y>>, <<GR2, Z>>, <<U1, X>>, <<U1, Y>>, <<U1, XcY>>,
       <<U7, X>>, <<U2, Y>>, <<PUBLIC, Z>> >>

InitReport ==
    /\ page = "Home"
    /\ pc = "main.start"
    /\ ug_file \in {TableFile(FullMembershipHeader, <<1, 2, 3>>, rows) :
                       rows \in TablesFrom(ReportMembershipPool,
                                           Len(ReportMembershipPool))}
    /\ acc_file \in {TableFile(FullMasterHeader, <<1, 2>>, rows) :
                        rows \in TablesFrom(ReportMasterPool, Len(ReportMasterPool))}
    /\ Blank

\* the downloaded extra-access report is put into the uploader
UploadExport ==
    /\ page = "Home"
    /\ pc = "main.done"
    /\ "download" \in shown
    /\ ug_file' = content_file(export_csv)
    /\ pc' = "load_csv"
    /\ UNCHANGED <<page, acc_file, user_groups_df, master_df, user_groups,
                   group_accesses, user_accesses, public_accesses, extra_accesses,
                   exc, report>>

NextReport ==
    \/ HomeStart
    \/ HomeLoad
    \/ HomeGetUserGroups
    \/ HomeGetGroupAccesses
    \/ HomeGetUserAccesses
    \/ HomeGetPublicAccesses
    \/ HomeFindExtra
    \/ HomeStats
    \/ HomeDashboard
    \/ HomeExtraSection
    \/ HomeGroupSection
    \/ HomeUserSection
    \/ HomeExport
    \/ UploadExport
    \/ LoadMembership

SpecReport == InitReport /\ [][NextReport]_vars

-----------------------------------------------------------------------------
(* Claims about find_extra_accesses, under SpecFind *)

\* the difference the specification gives for user u: the user's accesses
\* that are neither public nor granted by one of the user's groups
SpecExtra(u) ==
    DictGet(user_accesses, u)
        \ (public_accesses
           \cup UNION {DictGet(group_accesses, g) : g \in user_groups[u]})

\* C1: the result of find_extra_accesses has as keys exactly the users of
\* user_groups whose accesses minus (public accesses and the accesses of their
\* groups) is non-empty, each mapped to that difference; a subject that is a
\* key of user_accesses only is no key of the result.
C1_ExtraIsTheDifference ==
    pc = "found" =>
        /\ DOMAIN extra_accesses = {u \in DOMAIN user_groups : SpecExtra(u) # {}}
        /\ \A u \in DOMAIN extra_accesses : extra_accesses[u] = SpecExtra(u)
        /\ \A u \in DOMAIN user_accesses \ DOMAIN user_groups :
              u \notin DOMAIN extra_accesses

\* a result with a key whose extra set is a proper part of the user's accesses,
\* computed where a subject with accesses is no user of user_groups
C1_Witness ==
    /\ pc = "found"
    /\ \E u \in DOMAIN extra_accesses : extra_accesses[u] # user_accesses[u]
    /\ \E u \in DOMAIN user_accesses \ DOMAIN user_groups : user_accesses[u] # {}

\* C8: a further call with one more access identifier in public_accesses
\* gives every user a subset of the extra set of the call before (a user who
\* is no key counting as the empty set), so no key is added.
C8_MonotonicInPublic ==
    [][(pc = "found" /\ pc' = "found") =>
          /\ DOMAIN extra_accesses' \subseteq DOMAIN extra_accesses
          /\ \A u \in DOMAIN user_groups :
                DictGet(extra_accesses', u) \subseteq DictGet(extra_accesses, u)]_vars

\* a result that lost a key, and one that lost an access and kept its key,
\* after an access became public
C8_Witness ==
    /\ pc = "found"
    /\ \E a \in public_accesses :
          LET before == find_extra_accesses(user_groups, user_accesses,
                            group_accesses, public_accesses \ {a})
          IN  /\ \E u \in DOMAIN before : u \notin DOMAIN extra_accesses
              /\ \E u \in DOMAIN extra_accesses : extra_accesses[u] # before[u]

-----------------------------------------------------------------------------
(* Claims about get_user_groups, under SpecGroups *)

CommaOrWhitespace == {",", " ", "\t", "\n", "\r", "\f"}

\* the maximal pieces of s that hold no comma and no whitespace
Tokens(s) ==
    {SubSeq(s, ab[1], ab[2]) :
        ab \in {p \in (1..Len(s)) \X (1..Len(s)) :
                  /\ p[1] <= p[2]
                  /\ \A k \in p[1]..p[2] : s[k] \notin CommaOrWhitespace
                  /\ p[1] = 1 \/ s[p[1] - 1] \in CommaOrWhitespace
                  /\ p[2] = Len(s) \/ s[p[2] + 1] \in CommaOrWhitespace}}

\* the main group of row i, when present, with the tokens of its
\* additional-groups value
MainAndTokens(df, i) ==
    (IF notna(cell(df, i, MAIN_GROUP)) THEN {cell(df, i, MAIN_GROUP)} ELSE {})
    \cup (IF notna(cell(df, i, ADDL_GROUP)) THEN Tokens(cell(df, i, ADDL_GROUP)) ELSE {})

\* row i is the last row of its user identifier
IsLastRowOfUser(df, i) ==
    \A j \in (i + 1)..Len(df.rows) : cell(df, j, USER_NAME) # cell(df, i, USER_NAME)

\* C9 as stated: on both pages the resolved group set of a membership row's
\* user is exactly the main group (when present) and the non-empty tokens of
\* the additional-groups field split on runs of commas and whitespace.
C9_GroupSetIsMainAndTokens ==
    pc = "resolved" =>
        \A i \in 1..Len(user_groups_df.rows) :
            IsLastRowOfUser(user_groups_df, i) =>
                user_groups[cell(user_groups_df, i, USER_NAME)]
                    = MainAndTokens(user_groups_df, i)

\* C9 amended: that set is the resolved group set on the analyzer page; on
\* the access-export page the resolved set is that set together with the
\* user identifier of the row.
C9_GroupSetPerPage ==
    pc = "resolved" =>
        \A i \in 1..Len(user_groups_df.rows) :
            IsLastRowOfUser(user_groups_df, i) =>
                LET user == cell(user_groups_df, i, USER_NAME)
                IN  /\ page = "Home" =>
                          user_groups[user] = MainAndTokens(user_groups_df, i)
                    /\ page = "Export" =>
                          user_groups[user]
                              = MainAndTokens(user_groups_df, i) \cup {user}

\* the row (U1, "A", "B, C D") resolved on the access-export page
C9_Witness ==
    /\ pc = "resolved"
    /\ page = "Export"
    /\ user_groups_df.rows = << <<U1, A, ExampleAddl>> >>
    /\ user_groups[U1] = {U1, A, B, <<"C">>, <<"D">>}

\* C10: no key of the mapping get_user_groups returns is a missing or empty
\* user identifier, and the other users' entries are those of the table
\* without the rows that have no user identifier.
C10_NoEmptyUserKey ==
    pc = "resolved" =>
        /\ \A u \in DOMAIN user_groups : notna(u) /\ u # <<>>
        /\ LET kept == SelectSeq(user_groups_df.rows,
                            LAMBDA r : notna(r[column_index(user_groups_df, USER_NAME)]))
               df   == [user_groups_df EXCEPT !.rows = kept]
               d    == IF page = "Home" THEN get_user_groups(df)
                                        ELSE get_user_groups_export(df)
           IN  \A u \in {k \in DOMAIN user_groups : notna(k)} :
                   u \in DOMAIN d /\ user_groups[u] = d[u]

-----------------------------------------------------------------------------
(* Claims about the access resolvers, under SpecAccess *)

HasGroupMarker(s) == notna(s) /\ Len(s) >= 2 /\ s[1] = "G" /\ s[2] = "R"

\* the access identifiers of the rows of subject s
AccessesOfSubject(df, s) ==
    {a \in {cell(df, i, VHFROM) :
                i \in {j \in 1..Len(df.rows) : cell(df, j, JNUSER) = s}} : notna(a)}

\* C2 as stated: no subject with the group-marker prefix is a key of
\* user_access; a row with such a subject contributes to group_access only.
C2_ExclusiveRouting ==
    pc = "resolved" => \A s \in DOMAIN user_accesses : ~HasGroupMarker(s)

\* C2 amended: on the analyzer page a row whose subject has the group-marker
\* prefix contributes to group_access and to user_access under the same key,
\* a *PUBLIC row contributes to public_access only, and every other row
\* contributes to user_access only.
C2_RoutingBySubject ==
    (pc = "resolved" /\ page = "Home") =>
        /\ \A i \in 1..Len(master_df.rows) :
              LET s == cell(master_df, i, JNUSER)
                  a == cell(master_df, i, VHFROM)
              IN  /\ s = PUBLIC =>
                        /\ s \notin DOMAIN user_accesses \cup DOMAIN group_accesses
                        /\ notna(a) => a \in public_accesses
                  /\ HasGroupMarker(s) =>
                        /\ s \in DOMAIN user_accesses \cap DOMAIN group_accesses
                        /\ notna(a) => a \in user_accesses[s] \cap group_accesses[s]
                  /\ (s # PUBLIC /\ ~HasGroupMarker(s)) =>
                        /\ s \in DOMAIN user_accesses \ DOMAIN group_accesses
                        /\ notna(a) => a \in user_accesses[s]
        /\ \A g \in DOMAIN group_accesses :
              group_accesses[g] = AccessesOfSubject(master_df, g)
        /\ \A u \in DOMAIN user_accesses :
              user_accesses[u] = AccessesOfSubject(master_df, u)
        /\ public_accesses = AccessesOfSubject(master_df, PUBLIC)

\* a table with a group row, a user row and a public row, resolved
C2_Witness ==
    /\ pc = "resolved"
    /\ page = "Home"
    /\ GR1 \in DOMAIN group_accesses /\ group_accesses[GR1] # {}
    /\ GR1 \in DOMAIN user_accesses
    /\ U1 \in DOMAIN user_accesses
    /\ public_accesses # {}

\* C3: on both pages '*PUBLIC' is no key of the user_access mapping of
\* get_user_accesses, and the set of every key holds the access identifiers
\* of that subject's own rows only.
C3_PublicNeverUserKey ==
    pc = "resolved" =>
        /\ PUBLIC \notin DOMAIN user_accesses
        /\ \A u \in DOMAIN user_accesses :
              user_accesses[u] = AccessesOfSubject(master_df, u)

-----------------------------------------------------------------------------
(* Claims about the run of the analyzer page, under Spec *)


MembershipTable(rows) == TableFile(FullMembershipHeader, <<1, 2, 3>>, rows)
MasterTable(rows) == TableFile(FullMasterHeader, <<1, 2>>, rows)

\* the run of the analyzer page has called find_extra_accesses
Reconciled ==
    /\ page = "Home"
    /\ \/ pc \in {"main.generate_summary_stats", "main.dashboard",
                  "main.extra_section", "main.group_section",
                  "main.user_section", "main.export", "main.done"}
       \/ pc = "main.raised" /\ stats.computed

\* what the run has displayed or exported of the analysis
AnalysisOutput ==
    shown \cap {"metrics", "charts", "public accesses", "extra access table",
                "no extra access", "group table", "user table",
                "no users found", "download"}

\* C4: when a required column is missing from either table, the run reports
\* an error naming the column and is aborted: it computes no statistics and
\* displays or exports nothing of the analysis.
C4_MissingColumnAborts ==
    (/\ page = "Home"
     /\ user_groups_df.loaded /\ master_df.loaded
     /\ \/ missing_columns(user_groups_df) # <<>>
        \/ ~has_column(master_df, JNUSER)
        \/ ~has_column(master_df, VHFROM))
    => /\ ~stats.computed
       /\ AnalysisOutput = {}
       /\ export_csv = <<>>
       /\ pc \in {"main.done", "main.raised"} =>
             \/ \E i \in 1..Len(errors) : errors[i].kind = "Missing required column"
             \/ exc = "KeyError"

\* C5: a run of the analyzer page on two loaded tables (with all required
\* columns) raises no exception.
C5_RunsToCompletion ==
    (/\ page = "Home"
     /\ user_groups_df.loaded /\ master_df.loaded
     /\ missing_columns(user_groups_df) = <<>>
     /\ has_column(master_df, JNUSER) /\ has_column(master_df, VHFROM))
    => pc # "main.raised" /\ exc = NoExc

\* C6 as stated, the group identifier being the text G1: after the
\* reconciliation public_access = {Z}, group_access[G1] = {Y},
\* user_access[U1] = {X} and extra_accesses = {U1: {X}}.
C6_ScenarioG1 ==
    (/\ Reconciled
     /\ ug_file = MembershipTable(<< <<U1, G1, <<>>>> >>)
     /\ acc_file = MasterTable(<< <<U1, X>>, <<G1, Y>>, <<PUBLIC, Z>> >>))
    => /\ public_accesses = {Z}
       /\ G1 \in DOMAIN group_accesses /\ group_accesses[G1] = {Y}
       /\ U1 \in DOMAIN user_accesses /\ user_accesses[U1] = {X}
       /\ extra_accesses = [u \in {U1} |-> {X}]

\* C6 amended: with a group identifier that has the group-marker prefix
\* 'GR' (GR1 in place of G1) the run yields public_access = {Z},
\* group_access[GR1] = {Y}, user_access[U1] = {X}, extra_accesses = {U1: {X}}.
C6_ScenarioGR1 ==
    (/\ Reconciled
     /\ ug_file = MembershipTable(<< <<U1, GR1, <<>>>> >>)
     /\ acc_file = MasterTable(<< <<U1, X>>, <<GR1, Y>>, <<PUBLIC, Z>> >>))
    => /\ public_accesses = {Z}
       /\ GR1 \in DOMAIN group_accesses /\ group_accesses[GR1] = {Y}
       /\ U1 \in DOMAIN user_accesses /\ user_accesses[U1] = {X}
       /\ extra_accesses = [u \in {U1} |-> {X}]

\* the amended scenario of C6, reconciled
C6_Witness ==
    /\ Reconciled
    /\ ug_file = MembershipTable(<< <<U1, GR1, <<>>>> >>)
    /\ acc_file = MasterTable(<< <<U1, X>>, <<GR1, Y>>, <<PUBLIC, Z>> >>)
    /\ extra_accesses # EmptyDict

\* C7 as stated, the group identifier being the text G1: with the further
\* row {U1, Y}, user_access[U1] = {X, Y}, the expected set of U1 is {Y, Z}
\* and extra_accesses = {U1: {X}}.
C7_ScenarioG1 ==
    (/\ Reconciled
     /\ ug_file = MembershipTable(<< <<U1, G1, <<>>>> >>)
     /\ acc_file = MasterTable(<< <<U1, X>>, <<G1, Y>>, <<PUBLIC, Z>>, <<U1, Y>> >>))
    => /\ U1 \in DOMAIN user_accesses /\ user_accesses[U1] = {X, Y}
       /\ expected_accesses(user_groups[U1], group_accesses, public_accesses) = {Y, Z}
       /\ extra_accesses = [u \in {U1} |-> {X}]

\* C7 amended: with a group identifier that has the group-marker prefix
\* 'GR' (GR1 in place of G1), user_access[U1] = {X, Y}, the expected set of
\* U1 is {Y, Z} and extra_accesses = {U1: {X}}.
C7_ScenarioGR1 ==
    (/\ Reconciled
     /\ ug_file = MembershipTable(<< <<U1, GR1, <<>>>> >>)
     /\ acc_file = MasterTable(<< <<U1, X>>, <<GR1, Y>>, <<PUBLIC, Z>>, <<U1, Y>> >>))
    => /\ U1 \in DOMAIN user_accesses /\ user_accesses[U1] = {X, Y}
       /\ expected_accesses(user_groups[U1], group_accesses, public_accesses) = {Y, Z}
       /\ extra_accesses = [u \in {U1} |-> {X}]

\* the amended scenario of C7, reconciled: Y is held and is not extra
C7_Witness ==
    /\ Reconciled
    /\ ug_file = MembershipTable(<< <<U1, GR1, <<>>>> >>)
    /\ acc_file = MasterTable(<< <<U1, X>>, <<GR1, Y>>, <<PUBLIC, Z>>, <<U1, Y>> >>)
    /\ Y \in user_accesses[U1]
    /\ Y \notin extra_accesses[U1]

-----------------------------------------------------------------------------
(* Further claims about get_user_groups, under SpecGroups *)

\* the group set the resolver of the open page gives row i taken alone
RowGroupSet(df, i) ==
    LET alone == [df EXCEPT !.rows = <<df.rows[i]>>]
        d     == IF page = "Home" THEN get_user_groups(alone)
                                  ELSE get_user_groups_export(alone)
    IN  d[cell(df, i, USER_NAME)]

\* the rows of user identifier u, in table order
RowsOfUser(df, u) == {i \in 1..Len(df.rows) : cell(df, i, USER_NAME) = u}

LastRowOfUser(df, u) ==
    CHOOSE i \in RowsOfUser(df, u) : \A j \in RowsOfUser(df, u) : j <= i

\* C11: a user identifier that occurs in several membership rows is mapped
\* to exactly the group set of its last row in table order; the group sets of
\* its earlier rows are replaced, not merged into it.
C11_LastRowWins ==
    pc = "resolved" =>
        \A u \in {k \in DOMAIN user_groups : notna(k)} :
            Cardinality(RowsOfUser(user_groups_df, u)) > 1 =>
                user_groups[u]
                    = RowGroupSet(user_groups_df, LastRowOfUser(user_groups_df, u))

\* a user with two rows whose earlier row names a group the mapping lacks
C11_Witness ==
    /\ pc = "resolved"
    /\ \E u \in {k \in DOMAIN user_groups : notna(k)} :
          \E i \in RowsOfUser(user_groups_df, u) :
              /\ i < LastRowOfUser(user_groups_df, u)
              /\ RowGroupSet(user_groups_df, i) \ user_groups[u] # {}
              /\ user_groups[u] # {}

-----------------------------------------------------------------------------
(* Further claims about the run of the analyzer page, under Spec *)

\* the user identifiers of the membership table
MembershipUsers(df) ==
    IF has_column(df, USER_NAME)
    THEN {cell(df, i, USER_NAME) : i \in 1..Len(df.rows)}
    ELSE {}

\* the subjects of the rows of the access table
AccessSubjects(df) ==
    IF has_column(df, JNUSER)
    THEN {cell(df, i, JNUSER) : i \in 1..Len(df.rows)}
    ELSE {}

\* C12: a user of the membership table who is the subject of no row of the
\* access table is no key of extra_accesses, whatever the user's groups and
\* whatever the public and group access sets are.
C12_NoAccessRowsNoExtra ==
    Reconciled =>
        \A u \in MembershipUsers(user_groups_df) \ AccessSubjects(master_df) :
            u \notin DOMAIN extra_accesses

\* a reconciled run where a user with groups has no access row, while
\* another user has extra accesses and public and group accesses exist
C12_Witness ==
    /\ Reconciled
    /\ \E u \in DOMAIN user_groups \ AccessSubjects(master_df) :
          /\ user_groups[u] \cap DOMAIN group_accesses # {}
          /\ u \notin DOMAIN user_accesses
    /\ extra_accesses # EmptyDict
    /\ public_accesses # {}

-----------------------------------------------------------------------------
(* Claims about the extra-access report, under SpecReport *)

\* the users the specification reports: those of user_groups whose extra
\* set is not empty
UsersWithExtra == {u \in DOMAIN user_groups : SpecExtra(u) # {}}

\* the identifiers of S in ascending order
SortedSeqOf(S) ==
    CHOOSE q \in [1..Cardinality(S) -> S] :
        \A m, n \in 1..Cardinality(S) : m < n => str_less(q[m], q[n])

\* the records of the downloaded text, the header first
ExportRecords == tokenize(export_csv, ",")

ExportHeader ==
    <<ColUser, ColExtraAccesses, ColExtraAccessCount, ColAssignedGroups,
      ColGroupCount, ColTotalAccessCount>>

\* C13: the extra-access export has exactly one row for each user with a
\* non-empty extra set and no other row; in each row the extra-access count
\* is the size of the user's extra set, the group count the size of the
\* user's group set, the total access count the size of the user's access
\* set, and the extra-access and group fields list the identifiers in sorted
\* order separated by ", ".
C13_ExportRows ==
    (page = "Home" /\ "download" \in shown) =>
        LET rows == Tail(ExportRecords)
        IN  /\ Head(ExportRecords) = ExportHeader
            /\ Len(rows) = Cardinality(UsersWithExtra)
            /\ {rows[n][1] : n \in 1..Len(rows)} = UsersWithExtra
            /\ \A n \in 1..Len(rows) :
                  LET u == rows[n][1]
                  IN  /\ rows[n][2] = join_with(SortedSeqOf(SpecExtra(u)), CommaSpace)
                      /\ rows[n][3] = str_of_int(Cardinality(SpecExtra(u)))
                      /\ rows[n][4] = join_with(SortedSeqOf(user_groups[u]), CommaSpace)
                      /\ rows[n][5] = str_of_int(Cardinality(user_groups[u]))
                      /\ rows[n][6] = str_of_int(Cardinality(DictGet(user_accesses, u)))

\* an export of two rows, one of a user with several extra accesses and
\* several groups
C13_Witness ==
    /\ page = "Home"
    /\ "download" \in shown
    /\ Cardinality(DOMAIN extra_accesses) = 2
    /\ \E u \in DOMAIN extra_accesses : Cardinality(extra_accesses[u]) > 1
    /\ \E u \in DOMAIN extra_accesses : Cardinality(user_groups[u]) > 1

\* str.split(sep)
RECURSIVE split_from(_, _, _, _, _)
split_from(s, i, sep, cur, out) ==
    IF i > Len(s) THEN Append(out, cur)
    ELSE IF i + Len(sep) - 1 <= Len(s) /\ SubSeq(s, i, i + Len(sep) - 1) = sep
    THEN split_from(s, i + Len(sep), sep, <<>>, Append(out, cur))
    ELSE split_from(s, i + 1, sep, Append(cur, s[i]), out)

split(s, sep) == split_from(s, 1, sep, <<>>, <<>>)

\* the downloaded report has been read again by load_csv
Reloaded == pc = "get_user_groups"

\* the reloaded table gives back the users, the counts and the extra sets
RoundTrip ==
    /\ user_groups_df.loaded
    /\ has_column(user_groups_df, ColUser)
    /\ has_column(user_groups_df, ColExtraAccesses)
    /\ has_column(user_groups_df, ColExtraAccessCount)
    /\ {cell(user_groups_df, n, ColUser) : n \in 1..Len(user_groups_df.rows)}
           = DOMAIN extra_accesses
    /\ \A n \in 1..Len(user_groups_df.rows) :
          LET u == cell(user_groups_df, n, ColUser)
              joined == cell(user_groups_df, n, ColExtraAccesses)
          IN  /\ cell(user_groups_df, n, ColExtraAccessCount)
                    = py_int(Cardinality(extra_accesses[u]))
              /\ is_str(joined)
              /\ ToSet(split(joined, CommaSpace)) = extra_accesses[u]

\* C14 as stated: for every extra-access mapping, the exported report read
\* again by load_csv has the same users and the same extra-access count for
\* each, and each joined extra-access field split on ", " is the user's
\* extra set.
C14_RoundTrip == Reloaded => RoundTrip

\* the report gives back what was exported: no access identifier of the
\* mapping holds ", ", and neither the user column nor the extra-access
\* column of the report is read as numbers
RoundTripSafe ==
    /\ \A u \in DOMAIN extra_accesses :
          \A a \in extra_accesses[u] : ~contains(a, CommaSpace)
    /\ \E u \in DOMAIN extra_accesses : ~is_integer_text(u)
    /\ \E u \in DOMAIN extra_accesses :
          ~is_integer_text(join(sorted(extra_accesses[u])))

\* C14 amended: the round trip holds for the extra-access mappings in which
\* no access identifier contains ", " and whose report has a user column and
\* an extra-access column that load_csv does not read as numbers.
C14_RoundTripOfSafeMapping == (Reloaded /\ RoundTripSafe) => RoundTrip

\* a reloaded report of two users, one with a digits-only identifier and
\* one with two extra accesses, none of which holds ", "
C14_Witness ==
    /\ Reloaded
    /\ RoundTripSafe
    /\ Cardinality(DOMAIN extra_accesses) = 2
    /\ U7 \in DOMAIN extra_accesses
    /\ \E u \in DOMAIN extra_accesses : Cardinality(extra_accesses[u]) > 1

-----------------------------------------------------------------------------
(* Claims about the runs of both pages, under Spec *)

\* both files are uploaded and load_csv fails on at least one of them
LoadFails ==
    /\ ug_file.uploaded /\ acc_file.uploaded
    /\ ~ug_file.readable \/ ~acc_file.readable

\* the positions of a run where a resolver, the reconciliation, the
\* statistics, a report section or an export has been or is being executed
AnalysisSteps ==
    {"main.get_group_accesses", "main.get_user_accesses",
     "main.get_public_accesses", "main.find_extra_accesses",
     "main.generate_summary_stats", "main.dashboard", "main.extra_section",
     "main.group_section", "main.user_section", "main.export",
     "main.multiselect", "main.raised"}

\* no mapping, statistic, table or export has been produced
NothingAnalysed ==
    /\ user_groups = EmptyDict
    /\ group_accesses = EmptyDict
    /\ user_accesses = EmptyDict
    /\ public_accesses = {}
    /\ extra_accesses = EmptyDict
    /\ ~stats.computed
    /\ extra_access_data = <<>> /\ extra_df = <<>>
    /\ selected_accesses = {} /\ filtered_data = <<>>
    /\ export_csv = <<>>
    /\ shown \subseteq {"welcome"}

\* C15: when load_csv returns no table for either uploaded file, the run
\* executes no resolver, reconciliation, statistics or export step and
\* reports an error; the analysis steps are executed only in runs where
\* both tables loaded.
C15_AllOrNothing ==
    /\ LoadFails =>
          /\ pc \in {"main.start", "main.load_csv", "main.done"}
          /\ NothingAnalysed
          /\ exc = NoExc
          /\ pc = "main.done" =>
                /\ \E n \in 1..Len(errors) : errors[n] = LoadError
                /\ errors[Len(errors)] = LoadFailed
    /\ (pc \in AnalysisSteps \/ pc = "main.get_user_groups" \/ ~NothingAnalysed) =>
          /\ user_groups_df.loaded /\ master_df.loaded
          /\ ug_file.readable /\ acc_file.readable

\* a finished run on a membership file that cannot be read and an access
\* file with rows
C15_Witness ==
    /\ pc = "main.done"
    /\ ~ug_file.readable /\ ug_file.uploaded
    /\ acc_file.readable /\ Len(acc_file.rows) > 1
    /\ errors = <<LoadError, LoadFailed>>

-----------------------------------------------------------------------------
(* Further claims about find_extra_accesses, under SpecFind *)

\* the sequences that list the elements of S once each
OrdersOf(S) ==
    {q \in [1..Cardinality(S) -> S] : \A m, n \in 1..Cardinality(S) : m # n => q[m] # q[n]}

\* C16: a call of find_extra_accesses leaves user_groups, user_access,
\* group_access and public_access as they were; its result is the same for
\* every order in which the users are visited and the expected set of a user
\* the same for every order in which the user's groups are visited, so a call
\* on equal arguments returns an equal mapping.
C16_PureAndOrderFree ==
    [][(pc = "find_extra_accesses" /\ pc' = "found") =>
          /\ user_groups' = user_groups
          /\ user_accesses' = user_accesses
          /\ group_accesses' = group_accesses
          /\ public_accesses' = public_accesses
          /\ \A order \in OrdersOf(DOMAIN user_groups) :
                extra_accesses' = find_extra_accesses_in(order, user_groups,
                                      user_accesses, group_accesses, public_accesses)
          /\ \A u \in DOMAIN user_groups :
                \A group_order \in OrdersOf(user_groups[u]) :
                    expected_in_order(group_order, 1, group_accesses, public_accesses)
                        = expected_accesses(user_groups[u], group_accesses,
                                            public_accesses)
          /\ extra_accesses' = find_extra_accesses(user_groups', user_accesses',
                                    group_accesses', public_accesses')]_vars

\* a result for two users, one of them in two groups whose access sets
\* differ and are not all public
C16_Witness ==
    /\ pc = "found"
    /\ Cardinality(DOMAIN user_groups) = 2
    /\ extra_accesses # EmptyDict
    /\ \E u \in DOMAIN user_groups :
          /\ {GR1, GR2} \subseteq user_groups[u] \cap DOMAIN group_accesses
          /\ group_accesses[GR1] # group_accesses[GR2]
          /\ ~(group_accesses[GR1] \cup group_accesses[GR2] \subseteq public_accesses)

-----------------------------------------------------------------------------
(* Further claims about the access resolvers, under SpecAccess *)

\* the rows of subject s all lack an access value
LacksAccessValue(df, s) ==
    \A i \in 1..Len(df.rows) :
        cell(df, i, JNUSER) = s => isna(cell(df, i, VHFROM))

\* the access values of the rows of the table
AccessValues(df) == {a \in {cell(df, i, VHFROM) : i \in 1..Len(df.rows)} : notna(a)}

\* C17: a row without an access value adds no access identifier to any set
\* and does not drop its subject: after resolution every user subject of the
\* table is a key of user_access and every subject with the group marker a
\* key of group_access, with the empty set when all its rows lack an access
\* value.
C17_EmptyAccessKeepsSubject ==
    pc = "resolved" =>
        /\ \A i \in 1..Len(master_df.rows) :
              LET s == cell(master_df, i, JNUSER)
              IN  /\ (notna(s) /\ s # PUBLIC) =>
                        /\ s \in DOMAIN user_accesses
                        /\ LacksAccessValue(master_df, s) => user_accesses[s] = {}
                  /\ (HasGroupMarker(s) /\ page = "Home") =>
                        /\ s \in DOMAIN group_accesses
                        /\ LacksAccessValue(master_df, s) => group_accesses[s] = {}
        /\ \A u \in DOMAIN user_accesses :
              user_accesses[u] \subseteq AccessValues(master_df)
        /\ \A g \in DOMAIN group_accesses :
              group_accesses[g] \subseteq AccessValues(master_df)
        /\ public_accesses \subseteq AccessValues(master_df)
        /\ LacksAccessValue(master_df, PUBLIC) => public_accesses = {}

\* a resolved table where a user and a group have rows without an access
\* value only, and a third subject has an access
C17_Witness ==
    /\ pc = "resolved"
    /\ page = "Home"
    /\ U1 \in DOMAIN user_accesses /\ user_accesses[U1] = {}
    /\ GR1 \in DOMAIN group_accesses /\ group_accesses[GR1] = {}
    /\ AccessValues(master_df) # {}

-----------------------------------------------------------------------------
(* The runs of the access-export page on tables that also have rows        *)
(* without an identifier and rows with a digits-only identifier            *)

\* rows USER_NAME, MAIN_GROUP, ADDL_GROUP
ExportMembershipPool ==
    << <<U1, GR1, <<>>>>, <<U2, GR1, GR2>>, <<<<>>, GR1, <<>>>>, <<U7, GR2, <<>>>> >>

\* rows JNUSER, VHFROM
ExportMasterPool ==
    << <<U1, X>>, <<U1, Y>>, <<U2, Y>>, <<U2, <<>>>>, <<GR1, Z>>, <<<<>>, X>>,
       <<U7, Y>> >>

InitExportPage ==
    /\ page = "Export"
    /\ pc = "main.start"
    /\ ug_file \in {TableFile(FullMembershipHeader, <<1, 2, 3>>, rows) :
                       rows \in TablesFrom(ExportMembershipPool,
                                           Len(ExportMembershipPool))}
    /\ acc_file \in {TableFile(FullMasterHeader, <<1, 2>>, rows) :
                        rows \in TablesFrom(ExportMasterPool, Len(ExportMasterPool))}
    /\ Blank

NextExportPage ==
    \/ ExportStart
    \/ ExportLoad
    \/ ExportGetUserGroups
    \/ ExportGetUserAccesses
    \/ ExportFilter

SpecExportPage == InitExportPage /\ [][NextExportPage]_vars

-----------------------------------------------------------------------------
(* Claims about the access-export page, under SpecExportPage *)

WaitingForInput == "Please select at least one access to filter."

\* the run has shown the multiselect and acted on its selection
SelectionMade ==
    /\ page = "Export"
    /\ pc \in {"main.done", "main.raised"}
    /\ WaitingForInput \in shown \/ selected_accesses # {}

\* the subjects of user_access that hold a selected access identifier
SubjectsHoldingSelected ==
    {u \in DOMAIN user_accesses : user_accesses[u] \cap selected_accesses # {}}

\* C18: on the access-export page an empty selection produces no filtered
\* report and no download, and the page waits for input without error; a
\* selection that is not empty produces a filtered report with exactly one
\* row for each subject of user_access that holds a selected access
\* identifier and no row for any other subject.
C18_SelectionFilters ==
    SelectionMade =>
        /\ selected_accesses = {} =>
              /\ filtered_data = <<>>
              /\ export_csv = <<>>
              /\ shown \cap {"filtered table", "download"} = {}
              /\ WaitingForInput \in shown
              /\ pc = "main.done" /\ exc = NoExc /\ errors = <<>>
        /\ selected_accesses # {} =>
              /\ pc = "main.done" /\ exc = NoExc
              /\ "filtered table" \in shown
              /\ Len(filtered_data) = Cardinality(SubjectsHoldingSelected)
              /\ {filtered_data[n].User : n \in 1..Len(filtered_data)}
                    = SubjectsHoldingSelected

=============================================================================
